---- MODULE Spec2Model ----
(***************************************************************************)
(* Model of pages/2_Summary_of_a_specific_study.py: one Streamlit script   *)
(* run loads a study's sample metadata and phylum abundance table,         *)
(* normalizes the abundance table, reconciles the metadata with the        *)
(* abundance columns (samples_df) and derives the PCA and PCoA tables.     *)
(*                                                                         *)
(* Text is a sequence of one-character strings, so that splitting,         *)
(* substring search and concatenation are computed and not assumed.        *)
(* A table is a record whose rows carry the pandas index label (idx).      *)
(* Abundance counts are not represented: a coordinate row of an embedding  *)
(* is represented by the analysis (src) whose counts it was computed from. *)
(* Inputs are files as the study catalog provides them: the metadata file  *)
(* exists, phylum cells are text, counts are finite and non-negative.      *)
(***************************************************************************)
EXTENDS Integers, Sequences, FiniteSets, TLC

\* ------------------------------------------------------------ bounds
MaxPhyla == 3
MaxCols == 3
MaxMetaRows == 2
MaxRuns == 3

\* ------------------------------------------------------------- text
Range(s) == {s[i] : i \in 1..Len(s)}

Min2(a, b) == IF a <= b THEN a ELSE b

\* Code points of the characters that occur in analysis identifiers, ascending.
CodePoints == <<"0", "1", "2", "3", "4", "5", "6", "7", "8", "9", ";">>

CharCode(c) == CHOOSE i \in 1..Len(CodePoints) : CodePoints[i] = c

\* Python's str < str: lexicographic by code point, a proper prefix first.
RECURSIVE StrLess(_, _)
StrLess(a, b) ==
    IF b = <<>> THEN FALSE
    ELSE IF a = <<>> THEN TRUE
    ELSE IF Head(a) = Head(b) THEN StrLess(Tail(a), Tail(b))
    ELSE CharCode(Head(a)) < CharCode(Head(b))

\* Series.str.contains(pat) for a pattern without regex metacharacters.
Contains(s, pat) ==
    \E i \in 1..(Len(s) - Len(pat) + 1) : SubSeq(s, i, i + Len(pat) - 1) = pat

\* str.split(sep) for a one-character separator.
RECURSIVE Split(_, _)
Split(s, sep) ==
    IF \A i \in 1..Len(s) : s[i] # sep THEN <<s>>
    ELSE LET k == CHOOSE i \in 1..Len(s) :
                      s[i] = sep /\ \A j \in 1..(i - 1) : s[j] # sep
         IN  <<SubSeq(s, 1, k - 1)>> \o Split(SubSeq(s, k + 1, Len(s)), sep)

\* ----------------------------------------------------------- cells
\* A cell of an object column: a string, a list of strings, or NaN.
Str(s) == [t |-> "str", s |-> s, l |-> <<>>]
List(l) == [t |-> "list", s |-> <<>>, l |-> l]
NaN == [t |-> "nan", s |-> <<>>, l |-> <<>>]

IsNull(c) == c.t = "nan"

\* Series.fillna(value)
FillNaKeep(c, v) == c

FillNa(c, v) == IF IsNull(c) THEN Str(v) ELSE c

\* Series + Series on strings: a missing operand gives a missing result.
StrAdd(a, b) == IF a.t = "str" /\ b.t = "str" THEN Str(a.s \o b.s) ELSE NaN

\* Series.str.split(sep): a non-string element gives NaN.
StrSplit(c, sep) == IF c.t = "str" THEN List(Split(c.s, sep)) ELSE NaN

Semicolon == ";"
NA == <<"N", "A">>
Dash == <<" ", "-", " ">>

Unassigned == <<"U", "n", "a", "s", "s", "i", "g", "n", "e", "d">>
Candidatus == <<"C", "a", "n", "d", "i", "d", "a", "t", "u", "s">>
candidate == <<"c", "a", "n", "d", "i", "d", "a", "t", "e">>

\* ---------------------------------------------------------- frames
RECURSIVE Flatten(_)
Flatten(ss) == IF ss = <<>> THEN <<>> ELSE Head(ss) \o Flatten(Tail(ss))

\* DataFrame.reset_index(drop=True)
ResetIndex(rows) == [i \in 1..Len(rows) |-> [rows[i] EXCEPT !.idx = i - 1]]

Unset == [kind |-> "unset", rows |-> <<>>]
NoTable == [kind |-> "None", taxcols |-> <<>>, runcols |-> <<>>, rows |-> <<>>]
NoAbund == [kind |-> "unset", taxcols |-> <<>>, runcols |-> <<>>, rows |-> <<>>]
NoMeta == [kind |-> "unset", cols |-> {}, rows |-> <<>>]

\* Outcome of a call: the value returned, or the exception raised.
Return(v) == [err |-> "none", value |-> v]
Raise(e) == [err |-> e, value |-> Unset]

\* ------------------------------------------- preprocess_abund_table
\* The columns handed to DataFrame.drop.
KingdomOnly(t) == {"kingdom"}

DroppedColumns(t) ==
    IF "superkingdom" \in Range(t.taxcols)
    THEN {"kingdom", "superkingdom"}
    ELSE {"kingdom"}

\* abund_table[mask]: boolean-mask selection keeps order and index labels.
NotUnassigned(rows) == SelectSeq(rows, LAMBDA r : r.phylum # Unassigned)

NotContaining(rows, pat) == SelectSeq(rows, LAMBDA r : ~Contains(r.phylum, pat))

preprocess_abund_table(t) ==
    IF t.kind = "None" THEN Raise("AttributeError")
    ELSE IF ~(DroppedColumns(t) \subseteq Range(t.taxcols)) THEN Raise("KeyError")
    ELSE IF "phylum" \notin Range(t.taxcols) THEN Raise("KeyError")
    ELSE LET kept == SelectSeq(t.taxcols, LAMBDA c : c \notin DroppedColumns(t))
             r1 == NotUnassigned(t.rows)
             r2 == NotContaining(r1, Candidatus)
             r3 == NotContaining(r2, candidate)
         IN  Return([t EXCEPT !.taxcols = kept, !.rows = ResetIndex(r3)])

\* ------------------------------------------------------ reconciler
\* DataFrame.melt(id_vars='phylum', var_name='assembly_run_ids'): one row per
\* (analysis column, phylum row), column by column.
Melt(t) ==
    LET n == Len(t.runcols)
        p == Len(t.rows)
    IN  [k \in 1..(n * p) |->
            [idx |-> k - 1,
             phylum |-> t.rows[((k - 1) % p) + 1].phylum,
             assembly_run_ids |-> t.runcols[((k - 1) \div p) + 1]]]

\* The .str accessor refuses a column whose values are all missing (float64).
StrAccessorRaises(rows) ==
    Len(rows) > 0 /\ \A i \in 1..Len(rows) : IsNull(rows[i].assembly_run_ids)

SplitColumn(rows) ==
    [i \in 1..Len(rows) |->
        [rows[i] EXCEPT !.assembly_run_ids = StrSplit(@, Semicolon)]]

\* DataFrame.explode: one row per list element, the index label repeated.
ExplodeRow(r) ==
    LET c == r.assembly_run_ids
    IN  IF c.t = "list" /\ Len(c.l) > 0
        THEN [i \in 1..Len(c.l) |-> [r EXCEPT !.assembly_run_ids = Str(c.l[i])]]
        ELSE IF c.t = "list" THEN <<[r EXCEPT !.assembly_run_ids = NaN]>>
        ELSE <<r>>

Explode(rows) == Flatten([i \in 1..Len(rows) |-> ExplodeRow(rows[i])])

\* pd.merge(left, right, on key), how='inner': left key order is kept; the
\* right side's keys are column names, never missing.
MatchRows(l, right) ==
    LET hits == SelectSeq(right, LAMBDA m :
                    l.assembly_run_ids.t = "str"
                    /\ l.assembly_run_ids.s = m.assembly_run_ids)
    IN  [j \in 1..Len(hits) |->
            [idx |-> 0,
             sample_id |-> l.sample_id,
             assembly_run_ids |-> hits[j].assembly_run_ids,
             biome_feature |-> l.biome_feature,
             biome_material |-> l.biome_material,
             phylum |-> hits[j].phylum]]

Merge(left, right) ==
    ResetIndex(Flatten([i \in 1..Len(left) |-> MatchRows(left[i], right)]))

\* DataFrame.drop_duplicates(subset=['assembly_run_ids']): first occurrence kept.
KeepDuplicates(rows) == rows

DropDuplicates(rows) ==
    LET first(i) == \A j \in 1..(i - 1) :
                        rows[j].assembly_run_ids # rows[i].assembly_run_ids
        keep == SelectSeq([i \in 1..Len(rows) |-> i], first)
    IN  [k \in 1..Len(keep) |-> rows[keep[k]]]

\* samples_df[[...four columns...]]
Project(rows) ==
    [i \in 1..Len(rows) |->
        [idx |-> rows[i].idx,
         assembly_run_ids |-> rows[i].assembly_run_ids,
         sample_id |-> rows[i].sample_id,
         biome_feature |-> rows[i].biome_feature,
         biome_material |-> rows[i].biome_material]]

\* Lines 210-212: fill both descriptors, then concatenate them.
WithBiome(rows) ==
    [i \in 1..Len(rows) |->
        LET f == FillNa(rows[i].biome_feature, NA)
            m == FillNa(rows[i].biome_material, NA)
        IN  [idx |-> rows[i].idx,
             assembly_run_ids |-> rows[i].assembly_run_ids,
             sample_id |-> rows[i].sample_id,
             biome_feature |-> f,
             biome_material |-> m,
             biome |-> StrAdd(StrAdd(f, Str(Dash)), m)]]

\* DataFrame.sort_values(by=['assembly_run_ids'])
RECURSIVE Insert(_, _)
Insert(r, s) ==
    IF s = <<>> THEN <<r>>
    ELSE IF StrLess(r.assembly_run_ids, Head(s).assembly_run_ids) THEN <<r>> \o s
    ELSE <<Head(s)>> \o Insert(r, Tail(s))

RECURSIVE SortValues(_)
SortValues(rows) ==
    IF rows = <<>> THEN <<>>
    ELSE Insert(rows[Len(rows)], SortValues(SubSeq(rows, 1, Len(rows) - 1)))

ProjectedColumns == {"assembly_run_ids", "sample_id", "biome_feature", "biome_material"}

\* Lines 192-215.  The result carries sample_info as line 195 leaves it.
Reconcile(abund, info) ==
    IF "assembly_run_ids" \notin info.cols
    THEN [err |-> "KeyError", sample_info |-> info, samples_df |-> Unset]
    ELSE IF StrAccessorRaises(info.rows)
    THEN [err |-> "AttributeError", sample_info |-> info, samples_df |-> Unset]
    ELSE LET split == [info EXCEPT !.rows = SplitColumn(info.rows)]
             merged == Merge(Explode(split.rows), Melt(abund))
             unique == DropDuplicates(merged)
         IN  IF ~(ProjectedColumns \subseteq info.cols)
             THEN [err |-> "KeyError", sample_info |-> split, samples_df |-> Unset]
             ELSE [err |-> "none",
                   sample_info |-> split,
                   samples_df |->
                       [kind |-> "frame",
                        rows |-> ResetIndex(SortValues(
                                    WithBiome(ResetIndex(Project(unique)))))]]

\* ------------------------------------------------------ ordination
NComponents == 2

\* abund_table.set_index('phylum').T: one row per analysis column, in column order.
Transpose(t) ==
    [kind |-> "T",
     index |-> t.runcols,
     columns |-> [i \in 1..Len(t.rows) |-> t.rows[i].phylum]]

\* StandardScaler refuses an empty matrix; PCA(n_components=2) needs
\* n_components <= min(n_samples, n_features).
PCARaisesSamplesOnly(n, p) == n < NComponents

PCARaises(n, p) == n < 1 \/ p < 1 \/ NComponents > Min2(n, p)

\* A frame of coordinates built from a matrix: RangeIndex, row i from matrix row i.
Coordinates(T) ==
    [i \in 1..Len(T.index) |-> [idx |-> i - 1, src |-> T.index[i], biome |-> NaN]]

\* df['biome'] = samples_df['biome']: aligned on the index label; a label the
\* series lacks gives NaN, and the frame keeps its rows.
AssignBiomeInner(rows, sdf) ==
    LET has(r) == \E j \in 1..Len(sdf) : sdf[j].idx = r.idx
        kept == SelectSeq(rows, has)
    IN  [i \in 1..Len(kept) |->
            [kept[i] EXCEPT !.biome =
                sdf[CHOOSE j \in 1..Len(sdf) : sdf[j].idx = kept[i].idx].biome]]

AssignBiome(rows, sdf) ==
    [i \in 1..Len(rows) |->
        [rows[i] EXCEPT !.biome =
            IF \E j \in 1..Len(sdf) : sdf[j].idx = rows[i].idx
            THEN sdf[CHOOSE j \in 1..Len(sdf) : sdf[j].idx = rows[i].idx].biome
            ELSE NaN]]

\* ----------------------------------------------------- memoization
\* @st.cache_data keeps the pickled return value per argument and hands every
\* caller a copy of its own.
NoEntry == [hit |-> FALSE, value |-> Unset]

\* What the store holds for study s once the caller has written v into the
\* frame the memoized function returned.
SharedObjectStore(store, s, v) == [store EXCEPT ![s] = [hit |-> TRUE, value |-> v]]

StoreAfterWrite(store, s, v) == store

\* ---------------------------------------------------------- inputs
SeqsUpTo(S, n) == UNION {[1..k -> S] : k \in 0..n}

InjSeqsUpTo(S, n) ==
    {q \in SeqsUpTo(S, n) : \A i, j \in 1..Len(q) : i # j => q[i] # q[j]}

\* Analysis identifiers (column names of the abundance file).
AllIds == << <<"1">>, <<"2">>, <<"3">>, <<"1", "0">>, <<"4">> >>

IdPool == {AllIds[i] : i \in 1..Min2(MaxCols, Len(AllIds))}

Chlorobi == <<"C", "h", "l", "o", "r", "o", "b", "i">>
TM7 == <<"T", "M", "7">>
UnassignedLike == Unassigned \o <<" ", "b">>
CandidatusName == Candidatus \o <<" ", "X">>
candidateName == <<"W", " ">> \o candidate \o <<" ", "d">>
CapitalCandidate == <<"C">> \o Tail(candidate)

PhylumNames ==
    {Chlorobi, Unassigned, UnassignedLike, CandidatusName, candidateName,
     CapitalCandidate}

TaxColumns ==
    {<<"kingdom", "phylum">>, <<"superkingdom", "kingdom", "phylum">>, <<"phylum">>}

\* An abundance table as pd.read_csv returns it: RangeIndex, unique column names.
Wide(tc, cs, ps) ==
    [kind |-> "wide",
     taxcols |-> tc,
     runcols |-> cs,
     rows |-> [i \in 1..Len(ps) |-> [idx |-> i - 1, phylum |-> ps[i]]]]

SampleIds == <<"S1", "S2", "S3", "S4">>
Features == << <<"f", "1">>, <<"f", "2">>, <<"f", "3">>, <<"f", "4">> >>
Material == <<"m">>
AllColumns == {"sample_id", "assembly_run_ids", "biome_feature", "biome_material"}

MetaRow(k, ids, f, m) ==
    [idx |-> k - 1,
     sample_id |-> SampleIds[k],
     assembly_run_ids |-> ids,
     biome_feature |-> f,
     biome_material |-> m]

\* Metadata tables of at most MaxMetaRows samples, row k drawn from options[k].
MetaTables(cols, options) ==
    UNION {
        {[kind |-> "frame", cols |-> cols, rows |-> rows] :
            rows \in {q \in [1..n -> UNION {options[k] : k \in 1..n}] :
                        \A k \in 1..n : q[k] \in options[k]}}
        : n \in 0..MaxMetaRows}

IdCells == {Str(<<"1">>), Str(<<"2", ";", "1">>), Str(<<"3">>), NaN}

FullRows ==
    [k \in 1..Len(SampleIds) |->
        {MetaRow(k, i, f, m) :
            i \in IdCells, f \in {NaN, Str(Features[k])}, m \in {NaN, Str(Material)}}]

NoFeatureRows ==
    [k \in 1..Len(SampleIds) |->
        {MetaRow(k, i, NaN, m) : i \in IdCells, m \in {NaN, Str(Material)}}]

BareRows ==
    [k \in 1..Len(SampleIds) |-> {MetaRow(k, i, NaN, NaN) : i \in IdCells}]

LabelledRows ==
    [k \in 1..Len(SampleIds) |->
        {MetaRow(k, i, Str(Features[k]), Str(Material)) :
            i \in {Str(<<"1">>), Str(<<"2", ";", "1">>), Str(<<"3">>)}}]

OneSample ==
    [kind |-> "frame", cols |-> AllColumns,
     rows |-> <<MetaRow(1, Str(<<"2", ";", "1">>), Str(Features[1]), NaN)>>]

File(glob, meta) == [glob |-> glob, meta |-> meta]

\* Studies whose abundance table varies in its taxonomy columns and phylum rows.
NormFiles ==
    {File(<<>>, OneSample)} \cup
    {File(<<Wide(tc, << <<"1">>, <<"2">> >>, ps)>>, OneSample) :
        tc \in TaxColumns, ps \in SeqsUpTo(PhylumNames, MaxPhyla)}

\* Studies whose sample metadata varies.
RecAbund ==
    {Wide(<<"kingdom", "phylum">>, << <<"1">>, <<"2">> >>, <<Chlorobi, TM7>>),
     Wide(<<"superkingdom", "kingdom", "phylum">>, << <<"2">>, <<"3">>, <<"1">> >>,
          <<TM7, Unassigned, Chlorobi>>),
     Wide(<<"kingdom", "phylum">>, << <<"1">> >>, <<Chlorobi>>),
     Wide(<<"kingdom", "phylum">>, << <<"2">>, <<"1">> >>, <<>>)}

RecMeta ==
    MetaTables(AllColumns, FullRows)
    \cup MetaTables(AllColumns \ {"biome_feature"}, NoFeatureRows)
    \cup MetaTables(AllColumns \ {"biome_feature", "biome_material"}, BareRows)

RecFiles == {File(<<a>>, m) : a \in RecAbund, m \in RecMeta}

\* Studies whose analysis columns vary in number and order.
OrdPhyla == {<<>>, <<Chlorobi>>, <<Chlorobi, TM7>>, <<TM7, Unassigned, Chlorobi>>}

OrdFiles ==
    {File(<<>>, m) : m \in MetaTables(AllColumns, LabelledRows)} \cup
    {File(<<Wide(<<"kingdom", "phylum">>, cs, ps)>>, m) :
        cs \in InjSeqsUpTo(IdPool, MaxCols), ps \in OrdPhyla,
        m \in MetaTables(AllColumns, LabelledRows)}

\* Two studies, for reruns that switch between them.
MemoFiles ==
    {File(<<>>, OneSample),
     File(<<Wide(<<"kingdom", "phylum">>, << <<"2">>, <<"1">> >>, <<Chlorobi, TM7>>)>>,
          OneSample),
     File(<<Wide(<<"kingdom", "phylum">>, << <<"1">>, <<"3">> >>, <<Chlorobi, TM7>>)>>,
          [kind |-> "frame", cols |-> AllColumns,
           rows |-> <<MetaRow(1, Str(<<"3">>), NaN, Str(Material)),
                      MetaRow(2, Str(<<"1">>), Str(Features[2]), Str(Material))>>]),
     File(<<Wide(<<"kingdom", "phylum">>, << <<"1">>, <<"2">> >>, <<Chlorobi>>)>>,
          [kind |-> "frame", cols |-> AllColumns,
           rows |-> <<MetaRow(1, NaN, NaN, NaN)>>])}

\* ----------------------------------------------------------- state
VARIABLES
    files,           \* per study: the files matching the abundance pattern, the metadata
    memo_study,      \* st.cache_data store of load_study_data
    memo_abund,      \* st.cache_data store of load_abund_table
    runs,            \* script runs started so far
    pc,              \* position of the current script run
    selected_study,
    sample_info,
    abund_table,
    shown_abund,     \* the normalized table handed to AgGrid (line 180)
    samples_df,
    pca_df,
    bc_pcoa_data,
    err,             \* the exception that ended the run, or "none"
    first            \* per study: samples_df of the first completed run (history)

vars ==
    <<files, memo_study, memo_abund, runs, pc, selected_study, sample_info,
      abund_table, shown_abund, samples_df, pca_df, bc_pcoa_data, err, first>>

Studies == DOMAIN files

InitWith(F) ==
    /\ files \in F
    /\ memo_study = [s \in DOMAIN files |-> NoEntry]
    /\ memo_abund = [s \in DOMAIN files |-> NoEntry]
    /\ runs = 1
    /\ pc = "select"
    /\ selected_study = "none"
    /\ sample_info = NoMeta
    /\ abund_table = NoAbund
    /\ shown_abund = NoAbund
    /\ samples_df = Unset
    /\ pca_df = Unset
    /\ bc_pcoa_data = Unset
    /\ err = "none"
    /\ first = [s \in DOMAIN files |-> NoEntry]

OneStudy(F) == {[s \in {"ERP1"} |-> f] : f \in F}

TwoStudies(F) == [{"ERP1", "ERP2"} -> F]

Init == InitWith(OneStudy(OrdFiles))

InitNorm == InitWith(OneStudy(NormFiles))

InitRec == InitWith(OneStudy(RecFiles))

InitMemo == InitWith(TwoStudies(MemoFiles))

\* --------------------------------------------------------- actions
\* Line 100: the selectbox value of this run.
SelectStudy(s) ==
    /\ pc = "select"
    /\ selected_study' = s
    /\ pc' = "load_study"
    /\ UNCHANGED <<files, memo_study, memo_abund, runs, sample_info, abund_table,
                   shown_abund, samples_df, pca_df, bc_pcoa_data, err, first>>

\* Lines 32-40, called at line 116.
load_study_data(store, s) ==
    IF store[s].hit
    THEN [value |-> store[s].value, store |-> store]
    ELSE [value |-> files[s].meta,
          store |-> [store EXCEPT ![s] = [hit |-> TRUE, value |-> files[s].meta]]]

LoadStudyData ==
    /\ pc = "load_study"
    /\ LET r == load_study_data(memo_study, selected_study)
       IN  /\ sample_info' = r.value
           /\ memo_study' = r.store
    /\ pc' = "load_abund"
    /\ UNCHANGED <<files, memo_abund, runs, selected_study, abund_table,
                   shown_abund, samples_df, pca_df, bc_pcoa_data, err, first>>

\* Lines 48-67, called at line 169: None when glob finds nothing, else file[0].
load_abund_table(store, s) ==
    IF store[s].hit
    THEN [value |-> store[s].value, store |-> store]
    ELSE LET v == IF files[s].glob = <<>> THEN NoTable ELSE files[s].glob[1]
         IN  [value |-> v,
              store |-> [store EXCEPT ![s] = [hit |-> TRUE, value |-> v]]]

LoadAbundTable ==
    /\ pc = "load_abund"
    /\ LET r == load_abund_table(memo_abund, selected_study)
       IN  /\ abund_table' = r.value
           /\ memo_abund' = r.store
    /\ pc' = "preprocess"
    /\ UNCHANGED <<files, memo_study, runs, selected_study, sample_info,
                   shown_abund, samples_df, pca_df, bc_pcoa_data, err, first>>

\* Lines 170-180: normalize, then show the table.
PreprocessAbundTable ==
    /\ pc = "preprocess"
    /\ LET r == preprocess_abund_table(abund_table)
       IN  IF r.err = "none"
           THEN /\ abund_table' = r.value
                /\ shown_abund' = r.value
                /\ err' = "none"
                /\ pc' = "reconcile"
           ELSE /\ err' = r.err
                /\ pc' = "done"
                /\ UNCHANGED <<abund_table, shown_abund>>
    /\ UNCHANGED <<files, memo_study, memo_abund, runs, selected_study,
                   sample_info, samples_df, pca_df, bc_pcoa_data, first>>

\* Lines 192-215.
ReconcileStep ==
    /\ pc = "reconcile"
    /\ LET r == Reconcile(abund_table, sample_info)
       IN  /\ sample_info' = r.sample_info
           /\ memo_study' = StoreAfterWrite(memo_study, selected_study, r.sample_info)
           /\ samples_df' = r.samples_df
           /\ err' = r.err
           /\ pc' = IF r.err = "none" THEN "pca" ELSE "done"
    /\ UNCHANGED <<files, memo_abund, runs, selected_study, abund_table,
                   shown_abund, pca_df, bc_pcoa_data, first>>

\* Lines 222-244.
PCAStep ==
    /\ pc = "pca"
    /\ LET T == Transpose(abund_table)
       IN  /\ abund_table' = T
           /\ IF PCARaises(Len(T.index), Len(T.columns))
              THEN /\ err' = "ValueError"
                   /\ pc' = "done"
                   /\ UNCHANGED pca_df
              ELSE /\ pca_df' = [kind |-> "frame",
                                 rows |-> AssignBiome(Coordinates(T), samples_df.rows)]
                   /\ pc' = "pcoa"
                   /\ UNCHANGED err
    /\ UNCHANGED <<files, memo_study, memo_abund, runs, selected_study,
                   sample_info, shown_abund, samples_df, bc_pcoa_data, first>>

\* Lines 281-303: the distance matrix has one row per row of the transposed table.
PCoAStep ==
    /\ pc = "pcoa"
    /\ bc_pcoa_data' = [kind |-> "frame",
                        rows |-> AssignBiome(ResetIndex(Coordinates(abund_table)),
                                             samples_df.rows)]
    /\ pc' = "done"
    /\ UNCHANGED <<files, memo_study, memo_abund, runs, selected_study,
                   sample_info, abund_table, shown_abund, samples_df, pca_df,
                   err, first>>

\* A widget interaction reruns the script from the top: only the memo stores
\* outlive the run.
Rerun ==
    /\ pc = "done"
    /\ runs < MaxRuns
    /\ runs' = runs + 1
    /\ first' = IF first[selected_study].hit THEN first
                ELSE [first EXCEPT ![selected_study] =
                         [hit |-> TRUE, value |-> samples_df]]
    /\ pc' = "select"
    /\ selected_study' = "none"
    /\ sample_info' = NoMeta
    /\ abund_table' = NoAbund
    /\ shown_abund' = NoAbund
    /\ samples_df' = Unset
    /\ pca_df' = Unset
    /\ bc_pcoa_data' = Unset
    /\ err' = "none"
    /\ UNCHANGED <<files, memo_study, memo_abund>>

Next ==
    \/ \E s \in Studies : SelectStudy(s)
    \/ LoadStudyData
    \/ LoadAbundTable
    \/ PreprocessAbundTable
    \/ ReconcileStep
    \/ PCAStep
    \/ PCoAStep
    \/ Rerun

Spec == Init /\ [][Next]_vars

SpecNorm == InitNorm /\ [][Next]_vars

SpecRec == InitRec /\ [][Next]_vars

SpecMemo == InitMemo /\ [][Next]_vars

\* ---------------------------------------------------------- claims
\* What the current run read from disk.
LoadedMeta == files[selected_study].meta

RawAbund == files[selected_study].glob[1]

\* The normalized table exists once preprocess_abund_table has returned.
Normalized == shown_abund.kind = "wide"

NAnalyses == Len(shown_abund.runcols)

NPhyla == Len(shown_abund.rows)

\* Lines 192-215 have run (to the end or to an exception).
ReconcileActed == Normalized /\ pc \in {"pca", "pcoa", "done"}

\* Lines 222-241 have run (to the end or to an exception).
OrdinationActed == samples_df.kind = "frame" /\ pc \in {"pcoa", "done"}

NoEmbedding == pca_df.kind = "unset" /\ bc_pcoa_data.kind = "unset"

HasRowFor(a) ==
    \E j \in 1..Len(samples_df.rows) : samples_df.rows[j].assembly_run_ids = a

LabelOf(a) ==
    samples_df.rows[CHOOSE j \in 1..Len(samples_df.rows) :
                        samples_df.rows[j].assembly_run_ids = a].biome

LabelsFollowColumns(frame) ==
    frame.kind = "frame" =>
        \A i \in 1..Len(frame.rows) :
            /\ i <= NAnalyses
            /\ HasRowFor(shown_abund.runcols[i]) =>
                   frame.rows[i].biome = LabelOf(shown_abund.runcols[i])

\* C1: in the PCA and the PCoA table the Biome label at row i is the label the
\* reconciled table holds for the analysis of the i-th column of the normalized
\* abundance table, whatever the column order and the metadata matches.
C1_LabelsAligned == LabelsFollowColumns(pca_df) /\ LabelsFollowColumns(bc_pcoa_data)

ListedInMetadata(a) ==
    \E k \in 1..Len(LoadedMeta.rows) :
        LET c == LoadedMeta.rows[k].assembly_run_ids
        IN  c.t = "str" /\ a \in Range(Split(c.s, Semicolon))

HasCoordinatesOf(frame, a) == \E i \in 1..Len(frame.rows) : frame.rows[i].src = a

\* C2: an analysis column that no metadata row lists has no row in the
\* reconciled table and no row in the PCA or the PCoA table.
C2_UnmatchedDropped ==
    Normalized =>
        \A a \in Range(shown_abund.runcols) :
            ~ListedInMetadata(a) =>
                /\ ~HasRowFor(a)
                /\ ~HasCoordinatesOf(pca_df, a)
                /\ ~HasCoordinatesOf(bc_pcoa_data, a)

\* C3: the PCA table and the PCoA table each have as many rows as the
\* normalized abundance table has analysis columns, the biome column attached.
C3_RowCount ==
    /\ pca_df.kind = "frame" => Len(pca_df.rows) = NAnalyses
    /\ bc_pcoa_data.kind = "frame" => Len(bc_pcoa_data.rows) = NAnalyses

\* Both tables are built and fewer analyses were reconciled than embedded.
C3_Witness ==
    /\ pc = "done"
    /\ pca_df.kind = "frame"
    /\ bc_pcoa_data.kind = "frame"
    /\ NAnalyses >= 3
    /\ Len(samples_df.rows) \in 1..(NAnalyses - 1)

Excluded(p) == p = Unassigned \/ Contains(p, Candidatus) \/ Contains(p, candidate)

\* C4: the output of preprocess_abund_table has no Unassigned row, no row whose
\* phylum contains Candidatus or candidate, no kingdom or superkingdom column;
\* every other row is kept, in order, re-indexed from 0.
C4_Normalized ==
    Normalized =>
        LET out == shown_abund.rows
            others == SelectSeq(RawAbund.rows, LAMBDA r : ~Excluded(r.phylum))
        IN  /\ \A i \in 1..Len(out) : out[i].phylum # Unassigned
            /\ \A i \in 1..Len(out) : ~Contains(out[i].phylum, Candidatus)
            /\ \A i \in 1..Len(out) : ~Contains(out[i].phylum, candidate)
            /\ "kingdom" \notin Range(shown_abund.taxcols)
            /\ "superkingdom" \notin Range(shown_abund.taxcols)
            /\ Len(out) = Len(others)
            /\ \A i \in 1..Len(out) :
                   out[i].phylum = others[i].phylum /\ out[i].idx = i - 1

\* A table with a superkingdom column whose first row is removed and whose
\* two other rows are kept.
C4_Witness ==
    /\ Normalized
    /\ "superkingdom" \in Range(RawAbund.taxcols)
    /\ Len(RawAbund.rows) = 3
    /\ Excluded(RawAbund.rows[1].phylum)
    /\ NPhyla = 2
    /\ shown_abund.rows[1].phylum # shown_abund.rows[2].phylum

\* C5: samples_df is strictly ascending by analysis identifier (no identifier
\* twice, rows sorted), also when metadata rows share an identifier or an
\* identifier matches several phylum rows.
C5_StrictlyAscending ==
    samples_df.kind = "frame" =>
        \A i \in 1..(Len(samples_df.rows) - 1) :
            StrLess(samples_df.rows[i].assembly_run_ids,
                    samples_df.rows[i + 1].assembly_run_ids)

\* Two samples list the same analysis, one sample lists its analyses in
\* descending order, and each analysis matches two phylum rows.
C5_Witness ==
    /\ samples_df.kind = "frame"
    /\ Len(samples_df.rows) >= 2
    /\ NPhyla >= 2
    /\ \E k, m \in 1..Len(sample_info.rows) :
          LET a == sample_info.rows[k].assembly_run_ids.l
              b == sample_info.rows[m].assembly_run_ids.l
          IN  /\ k # m
              /\ Len(a) = 2
              /\ StrLess(a[2], a[1])
              /\ HasRowFor(a[1])
              /\ HasRowFor(a[2])
              /\ Range(a) \cap Range(b) # {}

OrNA(c) == IF IsNull(c) THEN NA ELSE c.s

\* The label is built from the descriptors of a sample that lists the analysis.
WellFormed(row) ==
    /\ row.biome.t = "str"
    /\ \E k \in 1..Len(LoadedMeta.rows) :
          LET m == LoadedMeta.rows[k]
          IN  /\ m.sample_id = row.sample_id
              /\ m.assembly_run_ids.t = "str"
              /\ row.assembly_run_ids \in Range(Split(m.assembly_run_ids.s, Semicolon))
              /\ row.biome.s = OrNA(m.biome_feature) \o Dash \o OrNA(m.biome_material)

LabelsWellFormed ==
    /\ err # "KeyError"
    /\ \A i \in 1..Len(samples_df.rows) : WellFormed(samples_df.rows[i])

NotFoundErrors == {"NotFound", "FileNotFoundError"}

\* C7: when no file matches the abundance pattern the run fails with a NotFound
\* error and produces no reconciled table and no embedding table.
C7_NotFound ==
    (pc = "done" /\ files[selected_study].glob = <<>>) =>
        /\ err \in NotFoundErrors
        /\ samples_df.kind = "unset"
        /\ NoEmbedding

DimensionErrors == {"DimensionError", "ValueError"}

OrdinationRefused ==
    /\ err \in DimensionErrors
    /\ NoEmbedding
    /\ Normalized
    /\ samples_df.kind = "frame"

C9_InputsUnchanged ==
    ReconcileActed =>
        /\ sample_info = LoadedMeta
        /\ shown_abund = preprocess_abund_table(RawAbund).value

\* C10: over unchanged files, every run for a study produces the reconciled
\* table that the first run for that study produced.
C10_SameReconciled ==
    (pc = "done" /\ first[selected_study].hit)
        => samples_df = first[selected_study].value

\* The third run, after both studies have been run, repeats a study whose
\* reconciled table has rows.
C10_Witness ==
    /\ pc = "done"
    /\ runs = 3
    /\ \A s \in Studies : first[s].hit
    /\ samples_df.kind = "frame"
    /\ Len(samples_df.rows) >= 2
    /\ memo_study[selected_study].hit

====
